---------------------------- MODULE Spec2Model ----------------------------
(***************************************************************************)
(* BAC Helicopters passenger ticketing backend (src/main_template.py).     *)
(*                                                                         *)
(* Text values are sequences of one-character strings, so that slugify,    *)
(* split, strip and the number conversions are computed character by       *)
(* character as the Python code computes them.  A JSON payload is a        *)
(* function whose domain is the set of keys present in the request.        *)
(* The file system is modelled by one variable per directory or file.      *)
(***************************************************************************)
EXTENDS Integers, Sequences, FiniteSets, TLC

(***************************************************************************)
(* Bounds of the model.                                                    *)
(***************************************************************************)
MaxRequests == 2
MaxClock == 1
MaxCalls == 3
NumThreads == 2

(***************************************************************************)
(* Characters and Python string methods.                                   *)
(***************************************************************************)
UpperChars == <<"A","B","C","D","E","F","G","H","I","J","K","L","M",
                "N","O","P","Q","R","S","T","U","V","W","X","Y","Z">>
LowerChars == <<"a","b","c","d","e","f","g","h","i","j","k","l","m",
                "n","o","p","q","r","s","t","u","v","w","x","y","z">>
DigitChars == <<"0","1","2","3","4","5","6","7","8","9">>

Range(s) == {s[i] : i \in DOMAIN s}

IndexIn(s, c) == CHOOSE i \in DOMAIN s : s[i] = c

IsSpace(c) == c \in {" ", "\t", "\n"}

\* the class \w of the re module: letters, digits and the underscore
IsWord(c) == c \in Range(UpperChars) \cup Range(LowerChars) \cup Range(DigitChars) \cup {"_"}

LowerChar(c) == IF c \in Range(UpperChars) THEN LowerChars[IndexIn(UpperChars, c)] ELSE c

UpperChar(c) == IF c \in Range(LowerChars) THEN UpperChars[IndexIn(LowerChars, c)] ELSE c

StrLower(s) == [i \in DOMAIN s |-> LowerChar(s[i])]

StrUpper(s) == [i \in DOMAIN s |-> UpperChar(s[i])]

RECURSIVE LStrip(_)
LStrip(s) == IF s # <<>> /\ IsSpace(Head(s)) THEN LStrip(Tail(s)) ELSE s

RECURSIVE RStrip(_)
RStrip(s) == IF s # <<>> /\ IsSpace(s[Len(s)]) THEN RStrip(SubSeq(s, 1, Len(s) - 1)) ELSE s

StrStrip(s) == RStrip(LStrip(s))

\* re.sub(r'[^\w\s-]', '', text)
DropNonSlugChars(s) == SelectSeq(s, LAMBDA c : IsWord(c) \/ IsSpace(c) \/ c = "-")

\* re.sub(r'[-\s]+', '-', text)
RECURSIVE CollapseSeparators(_)
CollapseSeparators(s) ==
    IF s = <<>> THEN <<>>
    ELSE IF IsSpace(Head(s)) \/ Head(s) = "-"
         THEN IF Len(s) > 1 /\ (IsSpace(s[2]) \/ s[2] = "-")
              THEN CollapseSeparators(Tail(s))
              ELSE <<"-">> \o CollapseSeparators(Tail(s))
         ELSE <<Head(s)>> \o CollapseSeparators(Tail(s))

slugify(text) == CollapseSeparators(DropNonSlugChars(StrStrip(StrLower(text))))

generate_flight_id(date, route, reg) ==
    date \o <<"_">> \o slugify(route) \o <<"_">> \o slugify(reg)

\* str.split(sep) for a one-character separator
RECURSIVE StrSplit(_, _)
StrSplit(s, sep) ==
    IF \A i \in DOMAIN s : s[i] # sep THEN <<s>>
    ELSE LET k == CHOOSE i \in DOMAIN s : s[i] = sep /\ \A j \in 1..(i - 1) : s[j] # sep
         IN  <<SubSeq(s, 1, k - 1)>> \o StrSplit(SubSeq(s, k + 1, Len(s)), sep)

\* str.replace('-', ' - ')
RECURSIVE ReplaceHyphen(_)
ReplaceHyphen(s) ==
    IF s = <<>> THEN <<>>
    ELSE (IF Head(s) = "-" THEN <<" ", "-", " ">> ELSE <<Head(s)>>) \o ReplaceHyphen(Tail(s))

(***************************************************************************)
(* Number conversions: str(int), int(text), float(text).  Weights are      *)
(* whole numbers of kilograms in the model; a text that is not a run of    *)
(* decimal digits (after stripping white space) raises ValueError.         *)
(***************************************************************************)
RECURSIVE IntToStr(_)
IntToStr(n) == IF n < 10 THEN <<DigitChars[n + 1]>>
               ELSE IntToStr(n \div 10) \o <<DigitChars[(n % 10) + 1]>>

IsDigits(s) == s # <<>> /\ \A i \in DOMAIN s : s[i] \in Range(DigitChars)

RECURSIVE DigitsValue(_)
DigitsValue(s) == IF s = <<>> THEN 0
                  ELSE 10 * DigitsValue(SubSeq(s, 1, Len(s) - 1))
                       + (IndexIn(DigitChars, s[Len(s)]) - 1)

\* int(text) and float(text): [ok |-> TRUE, val |-> n], or ok = FALSE for ValueError
ParseNumber(s) == IF IsDigits(StrStrip(s)) THEN [ok |-> TRUE, val |-> DigitsValue(StrStrip(s))]
                  ELSE [ok |-> FALSE, val |-> 0]

\* `x or 0` followed by float()/int(): an empty text is falsy and counts as 0
NumberOrZero(s) == IF s = <<>> THEN [ok |-> TRUE, val |-> 0] ELSE ParseNumber(s)

(***************************************************************************)
(* dict.get on a function whose domain is the set of keys present.         *)
(***************************************************************************)
Get(d, k, default) == IF k \in DOMAIN d THEN d[k] ELSE default

\* an optional value: <<>> is "no file" / None, <<x>> is a file holding x
None == <<>>
Some(x) == <<x>>

EmptyMap == [k \in {} |-> <<>>]

(***************************************************************************)
(* Clock: seconds since midnight of one day.  strftime renders it.         *)
(***************************************************************************)
Pad2(n) == IF n < 10 THEN <<"0">> \o IntToStr(n) ELSE IntToStr(n)

Hours(t) == t \div 3600
Minutes(t) == (t \div 60) % 60
Seconds(t) == t % 60

\* now.strftime("%Y-%m-%d %H:%M:%S")
FormatTimestamp(t) ==
    <<"2","0","2","6","-","1","1","-","0","1"," ">>
    \o Pad2(Hours(t)) \o <<":">> \o Pad2(Minutes(t)) \o <<":">> \o Pad2(Seconds(t))

\* now.strftime("%Y%m%d_%H%M%S")
FormatTimestampFile(t) ==
    <<"2","0","2","6","1","1","0","1","_">>
    \o Pad2(Hours(t)) \o Pad2(Minutes(t)) \o Pad2(Seconds(t))

\* int(datetime.now().strftime("%H%M%S"))
ClockNumber(t) == DigitsValue(Pad2(Hours(t)) \o Pad2(Minutes(t)) \o Pad2(Seconds(t)))

(***************************************************************************)
(* Ticket counter (ticket_counter.txt).                                    *)
(***************************************************************************)
StartingNumber == 1548

\* The steps of one get_next_ticket_number call, for calls that interleave.
\* counter_read: exists() and int(read_text().strip()); ok is FALSE when int()
\* raises.  The variant reads a file that is not an integer as the start number.
counter_read_LenientInt(cf) ==
    IF cf = None \/ ~ParseNumber(cf[1]).ok THEN [ok |-> TRUE, current |-> StartingNumber]
    ELSE [ok |-> TRUE, current |-> ParseNumber(cf[1]).val]

counter_read(cf) ==
    IF cf = None THEN [ok |-> TRUE, current |-> StartingNumber]
    ELSE [ok |-> ParseNumber(cf[1]).ok, current |-> ParseNumber(cf[1]).val]

\* write_text(str(next_num)): open(mode='w') truncates the file, the text
\* arrives when the file is written and closed
counter_open(cf) == Some(<<>>)

\* The variant returns a number other than the one it stores.
counter_write_ReturnsOther(current) ==
    [file |-> Some(IntToStr(current + 1)), ret |-> current + 2]

\* next_num = current + 1, stored and returned
counter_write(current) ==
    [file |-> Some(IntToStr(current + 1)), ret |-> current + 1]

\* Variants of get_next_ticket_number: one stores the number it read instead
\* of the one it returns, one does not store at all.
get_next_ticket_number_StoresPrevious(cf, t) ==
    LET parsed == IF cf = None THEN [ok |-> TRUE, val |-> StartingNumber] ELSE ParseNumber(cf[1])
    IN  IF ~parsed.ok THEN {[ret |-> ClockNumber(t), file |-> cf, fellBack |-> TRUE]}
        ELSE {[ret |-> parsed.val + 1, file |-> Some(IntToStr(parsed.val)), fellBack |-> FALSE]}

get_next_ticket_number_NoWrite(cf, t) ==
    LET parsed == IF cf = None THEN [ok |-> TRUE, val |-> StartingNumber] ELSE ParseNumber(cf[1])
    IN  IF ~parsed.ok THEN {[ret |-> ClockNumber(t), file |-> cf, fellBack |-> TRUE]}
        ELSE {[ret |-> parsed.val + 1, file |-> cf, fellBack |-> FALSE]}

\* The outcomes of get_next_ticket_number on counter file cf at time t, as
\* the set of [ret, file, fellBack] the call can end in.  Without an I/O
\* error the file holds the returned number.  The except branch returns the
\* clock number: when the content is not an integer, when exists/read_text
\* raises (file untouched) and when write_text raises (file untouched, or
\* left truncated by the open).
get_next_ticket_number(cf, t) ==
    LET parsed  == IF cf = None THEN [ok |-> TRUE, val |-> StartingNumber]
                   ELSE ParseNumber(cf[1])
        fallback(f) == [ret |-> ClockNumber(t), file |-> f, fellBack |-> TRUE]
    IN  IF ~parsed.ok
        THEN {fallback(cf)}
        ELSE {[ret |-> parsed.val + 1, file |-> Some(IntToStr(parsed.val + 1)), fellBack |-> FALSE]}
             \cup {fallback(cf)}
             \cup {fallback(Some(<<>>))}

(***************************************************************************)
(* CSV manifests (manifest/<flight_id>.csv).  A file is a sequence of      *)
(* lines, a line a sequence of cells, a cell a text.  manifests maps the   *)
(* flight ids that have a file to the file.                                *)
(***************************************************************************)
MANIFEST_COLUMNS ==
    <<"ticket_number", "timestamp", "name", "body_weight", "num_bags", "bag_weight",
      "email", "flight_date", "flight_time", "route", "ac_type", "registration",
      "pilot", "dg_ack">>

\* the text of each column name, as writeheader() writes it and DictReader reads it
ColumnText ==
    [ticket_number |-> <<"t","i","c","k","e","t","_","n","u","m","b","e","r">>,
     timestamp |-> <<"t","i","m","e","s","t","a","m","p">>,
     name |-> <<"n","a","m","e">>,
     body_weight |-> <<"b","o","d","y","_","w","e","i","g","h","t">>,
     num_bags |-> <<"n","u","m","_","b","a","g","s">>,
     bag_weight |-> <<"b","a","g","_","w","e","i","g","h","t">>,
     email |-> <<"e","m","a","i","l">>,
     flight_date |-> <<"f","l","i","g","h","t","_","d","a","t","e">>,
     flight_time |-> <<"f","l","i","g","h","t","_","t","i","m","e">>,
     route |-> <<"r","o","u","t","e">>,
     ac_type |-> <<"a","c","_","t","y","p","e">>,
     registration |-> <<"r","e","g","i","s","t","r","a","t","i","o","n">>,
     pilot |-> <<"p","i","l","o","t">>,
     dg_ack |-> <<"d","g","_","a","c","k">>]

HeaderLine == [i \in DOMAIN MANIFEST_COLUMNS |-> ColumnText[MANIFEST_COLUMNS[i]]]

\* csv.DictWriter.writerow: the cells of data in the order of fieldnames
RowLine(data) == [i \in DOMAIN MANIFEST_COLUMNS |-> Get(data, MANIFEST_COLUMNS[i], <<>>)]

\* Variant of append_to_manifest that opens the file for writing, not appending.
append_to_manifest_Rewrites(manifests, flight_id, data) ==
    (flight_id :> <<HeaderLine, RowLine(data)>>) @@ manifests

\* Variant of append_to_manifest that writes the header on every append.
append_to_manifest_HeaderEachTime(manifests, flight_id, data) ==
    LET old == IF flight_id \in DOMAIN manifests THEN manifests[flight_id] ELSE <<>>
    IN  (flight_id :> (old \o <<HeaderLine, RowLine(data)>>)) @@ manifests

append_to_manifest(manifests, flight_id, data) ==
    LET file_exists == flight_id \in DOMAIN manifests
        old == IF file_exists THEN manifests[flight_id] ELSE <<>>
        written == (IF ~file_exists THEN <<HeaderLine>> ELSE <<>>) \o <<RowLine(data)>>
    IN  (flight_id :> (old \o written)) @@ manifests

Min(a, b) == IF a < b THEN a ELSE b

\* csv.DictReader: dict(zip(fieldnames, line)) with the first line as fieldnames
DictRow(header, line) ==
    LET n == Min(Len(header), Len(line))
    IN  [k \in {header[j] : j \in 1..n} |->
            line[CHOOSE j \in 1..n : header[j] = k /\ \A i \in (j + 1)..n : header[i] # k]]

\* Variant of read_manifest that returns the header line as a row.
read_manifest_HeaderAsRow(manifests, flight_id) ==
    IF flight_id \notin DOMAIN manifests THEN <<>>
    ELSE LET file == manifests[flight_id]
         IN  IF file = <<>> THEN <<>>
             ELSE [i \in 1..Len(file) |-> DictRow(file[1], file[i])]

read_manifest(manifests, flight_id) ==
    IF flight_id \notin DOMAIN manifests THEN <<>>
    ELSE LET file == manifests[flight_id]
         IN  IF file = <<>> THEN <<>>
             ELSE [i \in 1..(Len(file) - 1) |-> DictRow(file[1], file[i + 1])]

\* row.get(column, default) on a row that read_manifest returned
RowGet(row, column, default) == Get(row, ColumnText[column], default)

(***************************************************************************)
(* Ordering of texts (Python compares strings by code point).              *)
(***************************************************************************)
AsciiOrder == <<"\t", "\n", " ", "!", "-">> \o DigitChars \o UpperChars \o <<"_">> \o LowerChars

CharCode(c) == IndexIn(AsciiOrder, c)

RECURSIVE TextLess(_, _)
TextLess(a, b) ==
    IF b = <<>> THEN FALSE
    ELSE IF a = <<>> THEN TRUE
    ELSE IF Head(a) = Head(b) THEN TextLess(Tail(a), Tail(b))
    ELSE CharCode(Head(a)) < CharCode(Head(b))

\* sorted(S, reverse=True)
RECURSIVE SortedDescending(_)
SortedDescending(S) ==
    IF S = {} THEN <<>>
    ELSE LET top == CHOOSE x \in S : \A y \in S \ {x} : TextLess(y, x)
         IN  <<top>> \o SortedDescending(S \ {top})

\* tickets maps each existing ticket directory (a flight id) to its files
get_all_flights(manifests, tickets) == SortedDescending(DOMAIN manifests \cup DOMAIN tickets)

(***************************************************************************)
(* get_flight_summary                                                      *)
(***************************************************************************)
\* one pass of the loop body over a row: the three conversions run in order
\* inside one try, so the first ValueError skips the rest of the row
AddRow(tot, row) ==
    LET bw == NumberOrZero(RowGet(row, "body_weight", <<>>))
        gw == NumberOrZero(RowGet(row, "bag_weight", <<>>))
        nb == NumberOrZero(RowGet(row, "num_bags", <<>>))
    IN  IF ~bw.ok THEN tot
        ELSE IF ~gw.ok THEN [tot EXCEPT !.body = @ + bw.val]
        ELSE IF ~nb.ok THEN [tot EXCEPT !.body = @ + bw.val, !.bag = @ + gw.val]
        ELSE [body |-> tot.body + bw.val, bag |-> tot.bag + gw.val, bags |-> tot.bags + nb.val]

RECURSIVE SumRows(_, _)
SumRows(tot, rows) == IF rows = <<>> THEN tot ELSE SumRows(AddRow(tot, Head(rows)), Tail(rows))

\* Variant of FlightInfo that takes the attributes from the last row.
FlightInfo_FromLastRow(manifest, flight_id) ==
    IF manifest = <<>>
    THEN [date |-> None, time |-> None, route |-> None, ac_type |-> None,
          registration |-> None, pilot |-> None]
    ELSE LET row == manifest[Len(manifest)]
         IN  [date |-> Some(RowGet(row, "flight_date", <<>>)),
              time |-> Some(RowGet(row, "flight_time", <<>>)),
              route |-> Some(RowGet(row, "route", <<>>)),
              ac_type |-> Some(RowGet(row, "ac_type", <<>>)),
              registration |-> Some(RowGet(row, "registration", <<>>)),
              pilot |-> Some(RowGet(row, "pilot", <<>>))]

\* flight attributes: the first manifest row, else the parts of the flight id
FlightInfo(manifest, flight_id) ==
    IF manifest # <<>>
    THEN [date |-> Some(RowGet(manifest[1], "flight_date", <<>>)),
          time |-> Some(RowGet(manifest[1], "flight_time", <<>>)),
          route |-> Some(RowGet(manifest[1], "route", <<>>)),
          ac_type |-> Some(RowGet(manifest[1], "ac_type", <<>>)),
          registration |-> Some(RowGet(manifest[1], "registration", <<>>)),
          pilot |-> Some(RowGet(manifest[1], "pilot", <<>>))]
    ELSE LET parts == StrSplit(flight_id, "_")
         IN  IF Len(parts) >= 3
             THEN [date |-> Some(parts[1]), time |-> None,
                   route |-> Some(ReplaceHyphen(StrUpper(parts[2]))), ac_type |-> None,
                   registration |-> Some(StrUpper(parts[3])), pilot |-> None]
             ELSE [date |-> None, time |-> None, route |-> None, ac_type |-> None,
                   registration |-> None, pilot |-> None]

get_flight_summary(manifests, tickets, flight_id) ==
    LET manifest == read_manifest(manifests, flight_id)
        ticket_count == IF flight_id \in DOMAIN tickets
                        THEN Cardinality(DOMAIN tickets[flight_id]) ELSE 0
        tot == SumRows([body |-> 0, bag |-> 0, bags |-> 0], manifest)
    IN  [flight_id |-> flight_id,
         passenger_count |-> Len(manifest),
         ticket_count |-> ticket_count,
         total_body_weight |-> tot.body,
         total_bag_weight |-> tot.bag,
         total_bags |-> tot.bags,
         info |-> FlightInfo(manifest, flight_id)]

(***************************************************************************)
(* Request payloads.  A JSON object is a function from the keys present to *)
(* their values.  Text fields are texts; the two flags are JSON literals   *)
(* named by a string; an image field is [kind, len]: what its base64 data  *)
(* decodes to and how many characters it has.                              *)
(***************************************************************************)
\* Python truthiness of a JSON literal
FlagTruthy(v) == v \notin {"false", "null", "0", "\"\""}

\* str(value) of a JSON literal
PyStr(v) == CASE v = "true" -> <<"T","r","u","e">>
              [] v = "false" -> <<"F","a","l","s","e">>
              [] v = "null" -> <<"N","o","n","e">>
              [] v = "0" -> <<"0">>
              [] v = "1" -> <<"1">>
              [] v = "\"\"" -> <<>>
              [] OTHER -> <<"y","e","s">>

NoImage == [kind |-> "empty", len |-> 0]

MAX_SINGLE_IMAGE_BASE64 == 800000
MAX_TOTAL_BASE64 == 1200000

\* decode_base64_image: None for no data and for data b64decode rejects
decode_base64_image(img) ==
    IF img.len = 0 THEN None
    ELSE IF img.kind = "notb64" THEN None
    ELSE Some(img.kind)

\* Variant of ValidationError without the two size caps.
ValidationError_NoSizeCaps(data) ==
    LET missing(f) == Get(data, f, <<>>) = <<>>
        required == <<"name", "email", "body_weight", "flight_date", "route", "registration">>
    IN  IF DOMAIN data = {} THEN "No data provided"
        ELSE IF \E i \in DOMAIN required : missing(required[i])
        THEN "Missing required field"
        ELSE IF ~FlagTruthy(Get(data, "dg_acknowledged", "null"))
        THEN "You must acknowledge the Dangerous Goods information"
        ELSE IF ~FlagTruthy(Get(data, "conditions_accepted", "null"))
        THEN "You must accept the Conditions of Carriage"
        ELSE IF Get(data, "signature_data", NoImage).len = 0
        THEN "Signature is required"
        ELSE ""

\* Variant of ValidationError without the signature check.
ValidationError_NoSignatureCheck(data) ==
    LET missing(f) == Get(data, f, <<>>) = <<>>
        required == <<"name", "email", "body_weight", "flight_date", "route", "registration">>
    IN  IF DOMAIN data = {} THEN "No data provided"
        ELSE IF \E i \in DOMAIN required : missing(required[i])
        THEN "Missing required field"
        ELSE IF ~FlagTruthy(Get(data, "dg_acknowledged", "null"))
        THEN "You must acknowledge the Dangerous Goods information"
        ELSE IF ~FlagTruthy(Get(data, "conditions_accepted", "null"))
        THEN "You must accept the Conditions of Carriage"
        ELSE ""

\* the first failing check of submit_ticket, "" when the payload passes them all
ValidationError(data) ==
    LET missing(f) == Get(data, f, <<>>) = <<>>
        required == <<"name", "email", "body_weight", "flight_date", "route", "registration">>
        signature_data == Get(data, "signature_data", NoImage)
        photo1_data == Get(data, "photo1_data", NoImage)
        photo2_data == Get(data, "photo2_data", NoImage)
    IN  IF DOMAIN data = {} THEN "No data provided"
        ELSE IF \E i \in DOMAIN required : missing(required[i])
        THEN "Missing required field"
        ELSE IF ~FlagTruthy(Get(data, "dg_acknowledged", "null"))
        THEN "You must acknowledge the Dangerous Goods information"
        ELSE IF ~FlagTruthy(Get(data, "conditions_accepted", "null"))
        THEN "You must accept the Conditions of Carriage"
        ELSE IF signature_data.len = 0
        THEN "Signature is required"
        ELSE IF \E img \in {signature_data, photo1_data, photo2_data} :
                    img.len > MAX_SINGLE_IMAGE_BASE64
        THEN "image is too large"
        ELSE IF signature_data.len + photo1_data.len + photo2_data.len > MAX_TOTAL_BASE64
        THEN "Total image data is too large"
        ELSE ""

\* the passenger_data dict of submit_ticket, ticket_number included
PassengerData(data, t, ticket_number) ==
    [timestamp |-> FormatTimestamp(t),
     name |-> StrStrip(Get(data, "name", <<>>)),
     email |-> StrStrip(Get(data, "email", <<>>)),
     body_weight |-> Get(data, "body_weight", <<>>),
     num_bags |-> Get(data, "num_bags", <<"0">>),
     bag_weight |-> Get(data, "bag_weight", <<"0">>),
     flight_date |-> Get(data, "flight_date", <<>>),
     flight_time |-> Get(data, "flight_time", <<>>),
     route |-> Get(data, "route", <<>>),
     ac_type |-> Get(data, "ac_type", <<>>),
     registration |-> Get(data, "registration", <<>>),
     pilot |-> Get(data, "pilot", <<>>),
     dg_ack |-> PyStr(Get(data, "dg_acknowledged", "false")),
     ticket_number |-> IntToStr(ticket_number)]

(***************************************************************************)
(* create_ticket_pdf: the page layout and the conditions-of-carriage       *)
(* block.  Lengths are in units of 1/254 pt, so that 1 pt = 254 units and  *)
(* 1 mm = 72/25.4 pt = 720 units exactly.                                  *)
(***************************************************************************)
pt == 254
mm == 720

PageWidth == 210 * mm
PageHeight == 297 * mm
page_margin == 12 * mm
inner_margin == page_margin + 3 * mm
margin == page_margin + 8 * mm
content_width == PageWidth - 2 * margin

\* the draw cursor y when the conditions block starts: height - margin less
\* every "y -=" of the sections above it
ConditionsTop ==
    (PageHeight - margin)
    - 26 * mm                            \* header
    - 6 * mm - 14 * mm - 14 * mm - 14 * mm - 16 * mm   \* flight details
    - 5 * mm - 8 * mm - (18 * mm + 4 * mm) - 10 * mm   \* weight declaration
    - 5 * mm - 4 * mm - (25 * mm + 10 * mm)            \* signature
    - (8 * mm + 8 * mm)                  \* acceptance banner
    - 4 * mm                             \* "CONDITIONS OF CARRIAGE" heading

dg_height == 28 * mm
footer_height == 10 * mm
conditions_height == ConditionsTop - inner_margin - dg_height - footer_height

col_width == (content_width - 6 * mm) \div 2

\* ParagraphStyle('Conditions', fontSize=5.5, leading=6.5): sizes in tenths of a point
ConditionsFontSize == 55
ConditionsLeading == 65

\* CONDITIONS_OF_CARRIAGE.strip().split('\n'), each line by its number of characters
ConditionsLines ==
    <<22, 0, 243, 0, 134, 0, 466, 0, 359, 0, 195, 0, 115, 0, 205, 0, 154, 0, 320, 0, 77>>

\* Paragraph.wrap: the lines a source line of n characters takes in a column,
\* with an average glyph width of half the font size (Helvetica)
WrappedLines(n, fontSize) ==
    LET width == (n * fontSize * pt) \div 20
    IN  IF width <= col_width THEN 1 ELSE (width + col_width - 1) \div col_width

RECURSIVE BlockLines(_, _)
BlockLines(lines, fontSize) ==
    IF lines = <<>> THEN 0
    ELSE WrappedLines(Head(lines), fontSize) + BlockLines(Tail(lines), fontSize)

\* the height of a column block joined with <br/>, in units
BlockHeight(lines, fontSize, leading) == (BlockLines(lines, fontSize) * leading * pt) \div 10

\* both column blocks of the text fit a frame of conditions_height at a size
Column1(lines) == SubSeq(lines, 1, Len(lines) \div 2)
Column2(lines) == SubSeq(lines, (Len(lines) \div 2) + 1, Len(lines))

Fits(lines, fontSize, leading) ==
    /\ BlockHeight(Column1(lines), fontSize, leading) <= conditions_height
    /\ BlockHeight(Column2(lines), fontSize, leading) <= conditions_height

\* lines 616-649: split the text by line count into two columns and typeset
\* both once, at the style's size, into frames of conditions_height;
\* Frame.addFromList draws a paragraph that fits and leaves out one that does not
TypesetConditions(lines) ==
    [font |-> ConditionsFontSize,
     sizesTried |-> <<ConditionsFontSize>>,
     col1_drawn |-> BlockHeight(Column1(lines), ConditionsFontSize, ConditionsLeading)
                        <= conditions_height,
     col2_drawn |-> BlockHeight(Column2(lines), ConditionsFontSize, ConditionsLeading)
                        <= conditions_height,
     returned |-> TRUE]

\* Variant of create_ticket_pdf that draws whatever bytes were decoded.
create_ticket_pdf_DrawsAnyBytes(data, signature_bytes) ==
    [data |-> data,
     signature_drawn |-> signature_bytes # None,
     conditions |-> TypesetConditions(ConditionsLines)]

\* the ticket document: the passenger data drawn on it, whether the signature
\* image was drawn, and the conditions block
create_ticket_pdf(data, signature_bytes) ==
    [data |-> data,
     signature_drawn |-> signature_bytes = Some("png"),
     conditions |-> TypesetConditions(ConditionsLines)]

(***************************************************************************)
(* Email.  outbox maps the file names present in outbox/ to the message    *)
(* each file holds.                                                        *)
(***************************************************************************)
Take(s, n) == SubSeq(s, 1, Min(n, Len(s)))

\* the character U+2014 of the passenger subject line
EmDash == "U+2014"

PassengerSubjectPrefix == <<"Y","o","u","r"," ","B","A","C"," ","H","e","l","i","c","o","p","t","e","r","s"," ","T","i","c","k","e","t"," ">> \o <<EmDash, " ">>
PilotSubjectPrefix == <<"[","M","A","N","I","F","E","S","T"," ","U","P","D","A","T","E","]"," ">>

passenger_subject(data) ==
    PassengerSubjectPrefix \o data.flight_date \o <<" ">> \o data.route
        \o <<" ", "(">> \o data.registration \o <<")">>

pilot_subject(route, date, passenger_count) ==
    PilotSubjectPrefix \o route \o <<" ", "-", " ">> \o date \o <<" ", "-", " ">>
        \o IntToStr(passenger_count) \o <<" ", "P", "A", "X">>

\* OUTBOX_DIR / f"{timestamp}_{slug}.eml"
eml_name(t, subject) ==
    FormatTimestampFile(t) \o <<"_">> \o Take(slugify(subject), 30) \o <<".", "e", "m", "l">>

\* Variant of send_email that also saves the message it delivered.
send_email_AlwaysSaves(outbox, t, smtp_configured, to_emails, subject) ==
    LET saved == (eml_name(t, subject) :> [to |-> to_emails, subject |-> subject]) @@ outbox
    IN  IF smtp_configured
        THEN {[outbox |-> saved, ret |-> "True", transport |-> "delivered"],
              [outbox |-> saved, ret |-> "False", transport |-> "failed"]}
        ELSE {[outbox |-> saved, ret |-> "False", transport |-> "none"]}

\* The outcomes of send_email: the set of [outbox, ret, transport].
\* transport: "none" (SMTP not configured), "failed" (connect, TLS, login or
\* send raised inside the try) or "delivered".  After "none" or "failed" the
\* message is written to the outbox outside any try: ret is "False" when the
\* write succeeds and "raised" when write_bytes raises.
send_email(outbox, t, smtp_configured, to_emails, subject) ==
    LET msg == [to |-> to_emails, subject |-> subject]
        saved == (eml_name(t, subject) :> msg) @@ outbox
        fallback(tr) == {[outbox |-> saved, ret |-> "False", transport |-> tr],
                         [outbox |-> outbox, ret |-> "raised", transport |-> tr]}
    IN  IF smtp_configured
        THEN {[outbox |-> outbox, ret |-> "True", transport |-> "delivered"]}
             \cup fallback("failed")
        ELSE fallback("none")

\* [e.strip() for e in email.split(',') if e.strip()]
RECURSIVE StripNonEmpty(_)
StripNonEmpty(parts) ==
    IF parts = <<>> THEN <<>>
    ELSE (IF StrStrip(Head(parts)) = <<>> THEN <<>> ELSE <<StrStrip(Head(parts))>>)
         \o StripNonEmpty(Tail(parts))

send_passenger_email(outbox, t, smtp_configured, passenger_data) ==
    send_email(outbox, t, smtp_configured,
               StripNonEmpty(StrSplit(passenger_data.email, ",")),
               passenger_subject(passenger_data))

\* the unguarded float()/int() sums of send_pilot_email raise ValueError on a
\* manifest row whose weight or bag count is not a number
PilotTotalsRaise(manifest) ==
    \E i \in DOMAIN manifest :
        \/ ~NumberOrZero(RowGet(manifest[i], "body_weight", <<>>)).ok
        \/ ~NumberOrZero(RowGet(manifest[i], "bag_weight", <<>>)).ok
        \/ ~NumberOrZero(RowGet(manifest[i], "num_bags", <<>>)).ok

\* Variant of send_pilot_email that sends whether or not PILOT_EMAIL is set.
send_pilot_email_NeverSkips(outbox, manifests, t, smtp_configured, pilot_email, flight_id, flight_summary) ==
    LET manifest == read_manifest(manifests, flight_id)
    IN  IF PilotTotalsRaise(manifest)
        THEN {[outbox |-> outbox, ret |-> "value_error", transport |-> "none"]}
        ELSE send_email(outbox, t, smtp_configured, <<pilot_email>>,
                        pilot_subject(flight_id, <<"N", "/", "A">>, Len(manifest)))

\* The outcomes of send_pilot_email: the set of [outbox, ret, transport].
\* ret "skipped": PILOT_EMAIL is not set; "value_error": the totals raised.
send_pilot_email(outbox, manifests, t, smtp_configured, pilot_email, flight_id, flight_summary) ==
    LET manifest == read_manifest(manifests, flight_id)
        route == IF flight_summary.info.route = None THEN flight_id
                 ELSE flight_summary.info.route[1]
        date == IF flight_summary.info.date = None THEN <<"N", "/", "A">>
                ELSE flight_summary.info.date[1]
    IN  IF pilot_email = <<>>
        THEN {[outbox |-> outbox, ret |-> "skipped", transport |-> "none"]}
        ELSE IF PilotTotalsRaise(manifest)
        THEN {[outbox |-> outbox, ret |-> "value_error", transport |-> "none"]}
        ELSE send_email(outbox, t, smtp_configured, <<pilot_email>>,
                        pilot_subject(route, date, Len(manifest)))

(***************************************************************************)
(* SharePoint upload.  splog is the number of lines of                     *)
(* outbox/sharepoint_upload_errors.log.                                    *)
(***************************************************************************)
\* The outcomes of upload_to_sharepoint: the set of [splog, ret].
\*   no token (credentials unset, or the token request failed): False, no log
\*   requests.get of ensure_sharepoint_folder raises: the exception propagates
\*   PUT answers 200/201: True
\*   PUT answers another status, or raises: one log line, False
upload_to_sharepoint(splog) ==
    {[splog |-> splog, ret |-> "False"],
     [splog |-> splog, ret |-> "raised"],
     [splog |-> splog, ret |-> "True"],
     [splog |-> splog + 1, ret |-> "False"]}

(***************************************************************************)
(* submit_ticket.  fs is the file system: [counter, manifests, tickets,    *)
(* outbox, splog]; cfg the environment: [smtp, pilot_email, sp_drive].     *)
(* The handler's outcomes are the set of [fs, resp]: the file system it    *)
(* leaves and the response, with the steps it took (events).               *)
(***************************************************************************)
Ev(e, res) == [e |-> e, res |-> res]

Response(status, number, ticket_id, events) ==
    [status |-> status, number |-> number, ticket_id |-> ticket_id, events |-> events]

ticket_filename(t, name) ==
    <<"t","i","c","k","e","t","_">> \o FormatTimestampFile(t) \o <<"_">> \o slugify(name)
        \o <<".","p","d","f">>

\* get_flight_dir: mkdir(exist_ok=True)
get_flight_dir(tickets, flight_id) ==
    IF flight_id \in DOMAIN tickets THEN tickets ELSE (flight_id :> EmptyMap) @@ tickets

\* lines 1164-1169: the optional uploads, after both emails; submit_ticket
\* drops what upload_to_sharepoint returns, so only a raise is an event of its own
Uploads(fs, cfg, flight_id, number, ticket_id, events) ==
    IF ~cfg.sp_drive
    THEN {[fs |-> fs, resp |-> Response(200, number, ticket_id, events)]}
    ELSE UNION {
        IF u1.ret = "raised"
        THEN {[fs |-> [fs EXCEPT !.splog = u1.splog],
               resp |-> Response(500, number, None, Append(events, Ev("upload_ticket", "raised")))]}
        ELSE {[fs |-> [fs EXCEPT !.splog = u2.splog],
               resp |-> IF u2.ret = "raised"
                        THEN Response(500, number, None,
                                      events \o <<Ev("upload_ticket", "returned"),
                                                  Ev("upload_manifest", "raised")>>)
                        ELSE Response(200, number, ticket_id,
                                      events \o <<Ev("upload_ticket", "returned"),
                                                  Ev("upload_manifest", "returned")>>)]
              : u2 \in upload_to_sharepoint(u1.splog)}
        : u1 \in upload_to_sharepoint(fs.splog)}

\* lines 1157-1162: the passenger email, then the summary and the pilot email
Emails(fs, cfg, t, passenger_data, flight_id, number, ticket_id, events) ==
    UNION {
        IF s1.ret = "raised"
        THEN {[fs |-> [fs EXCEPT !.outbox = s1.outbox],
               resp |-> Response(500, number, None,
                                 Append(events, Ev("send_passenger", "raised")))]}
        ELSE LET fs1 == [fs EXCEPT !.outbox = s1.outbox]
                 ev1 == Append(events, Ev("send_passenger", s1.ret))
                 flight_summary == get_flight_summary(fs1.manifests, fs1.tickets, flight_id)
             IN  UNION {
                    IF s2.ret \in {"raised", "value_error"}
                    THEN {[fs |-> [fs1 EXCEPT !.outbox = s2.outbox],
                           resp |-> Response(500, number, None,
                                             Append(ev1, Ev("send_pilot", s2.ret)))]}
                    ELSE Uploads([fs1 EXCEPT !.outbox = s2.outbox], cfg, flight_id, number,
                                 ticket_id, Append(ev1, Ev("send_pilot", s2.ret)))
                    : s2 \in send_pilot_email(fs1.outbox, fs1.manifests, t, cfg.smtp,
                                              cfg.pilot_email, flight_id, flight_summary)}
        : s1 \in send_passenger_email(fs.outbox, t, cfg.smtp, passenger_data)}

\* Variant of Issue that appends the manifest row before it writes the PDF.
Issue_AppendsBeforePdf(fs, cfg, t, data, c) ==
    LET fs0 == [fs EXCEPT !.counter = c.file]
        passenger_data == PassengerData(data, t, c.ret)
        signature_bytes == decode_base64_image(Get(data, "signature_data", NoImage))
        flight_id == generate_flight_id(passenger_data.flight_date, passenger_data.route,
                                        passenger_data.registration)
        ticket_pdf == create_ticket_pdf(passenger_data, signature_bytes)
        name == ticket_filename(t, passenger_data.name)
        fsRow == [fs0 EXCEPT !.manifests = append_to_manifest(@, flight_id, passenger_data)]
        fsDir == [fsRow EXCEPT !.tickets = get_flight_dir(@, flight_id)]
        fsPdf == [fsDir EXCEPT !.tickets[flight_id] = (name :> ticket_pdf) @@ @]
        ev0 == <<Ev("ticket_number", IF c.fellBack THEN "fallback" ELSE "counter")>>
        failed(f, e) == [fs |-> f, resp |-> Response(500, c.ret, None, Append(ev0, Ev(e, "raised")))]
    IN  {failed(fs0, "create_ticket_pdf"),
         failed(fs0, "append_to_manifest"),
         failed(fsDir, "write_pdf")}
        \cup Emails(fsPdf, cfg, t, passenger_data, flight_id, c.ret, Some(name),
                    ev0 \o <<Ev("write_pdf", "ok"), Ev("append_to_manifest", "ok")>>)

\* lines 1132-1155 for one outcome c of get_next_ticket_number: render the
\* PDF, write it, append the manifest row; each of the three can raise
Issue(fs, cfg, t, data, c) ==
    LET fs0 == [fs EXCEPT !.counter = c.file]
        passenger_data == PassengerData(data, t, c.ret)
        signature_bytes == decode_base64_image(Get(data, "signature_data", NoImage))
        flight_id == generate_flight_id(passenger_data.flight_date, passenger_data.route,
                                        passenger_data.registration)
        ticket_pdf == create_ticket_pdf(passenger_data, signature_bytes)
        name == ticket_filename(t, passenger_data.name)
        fsDir == [fs0 EXCEPT !.tickets = get_flight_dir(@, flight_id)]
        fsPdf == [fsDir EXCEPT !.tickets[flight_id] = (name :> ticket_pdf) @@ @]
        fsRow == [fsPdf EXCEPT !.manifests = append_to_manifest(@, flight_id, passenger_data)]
        ev0 == <<Ev("ticket_number", IF c.fellBack THEN "fallback" ELSE "counter")>>
        failed(f, e) == [fs |-> f, resp |-> Response(500, c.ret, None, Append(ev0, Ev(e, "raised")))]
    IN  {failed(fs0, "create_ticket_pdf"),
         failed(fsDir, "write_pdf"),
         failed(fsPdf, "append_to_manifest")}
        \cup Emails(fsRow, cfg, t, passenger_data, flight_id, c.ret, Some(name),
                    ev0 \o <<Ev("write_pdf", "ok"), Ev("append_to_manifest", "ok")>>)

submit_ticket(fs, cfg, t, data) ==
    IF ValidationError(data) # ""
    THEN {[fs |-> fs, resp |-> Response(400, -1, None, <<>>)]}
    ELSE UNION {Issue(fs, cfg, t, data, c) : c \in get_next_ticket_number(fs.counter, t)}

(***************************************************************************)
(* admin_dashboard                                                         *)
(***************************************************************************)
ADMIN_KEY == <<"b","a","c","1","2","3">>

\* the flights handed to the template: none unless the key is the admin key
admin_dashboard(fs, key) ==
    IF key # ADMIN_KEY
    THEN [authorized |-> FALSE, flights |-> <<>>]
    ELSE LET ids == get_all_flights(fs.manifests, fs.tickets)
         IN  [authorized |-> TRUE,
              flights |-> [i \in DOMAIN ids |->
                              get_flight_summary(fs.manifests, fs.tickets, ids[i])]]

(***************************************************************************)
(* create_link, download_manifest, download_tickets.  Each returns what    *)
(* the route answers: the status, the content (body) and, for create_link, *)
(* the files it leaves and the send it made.                               *)
(***************************************************************************)
\* urllib.parse.quote_plus of one character
QuotePlusChar(c) ==
    CASE IsWord(c) \/ c \in {".", "-", "~"} -> <<c>>
      [] c = " " -> <<"+">>
      [] c = ":" -> <<"%", "3", "A">>
      [] c = "@" -> <<"%", "4", "0">>
      [] c = "/" -> <<"%", "2", "F">>
      [] c = "\t" -> <<"%", "0", "9">>
      [] c = "\n" -> <<"%", "0", "A">>
      [] c = "!" -> <<"%", "2", "1">>

RECURSIVE QuotePlus(_)
QuotePlus(s) == IF s = <<>> THEN <<>> ELSE QuotePlusChar(Head(s)) \o QuotePlus(Tail(s))

\* urlencode(params): key=value pairs joined by '&', in the order of the dict
RECURSIVE urlencode(_)
urlencode(params) ==
    IF params = <<>> THEN <<>>
    ELSE params[1][1] \o <<"=">> \o QuotePlus(params[1][2])
         \o (IF Len(params) > 1 THEN <<"&">> ELSE <<>>) \o urlencode(Tail(params))

\* get_base_url(): PUBLIC_BASE_URL or the request's host URL, without the trailing '/'
BaseUrl == <<"h", "t", "t", "p", ":", "/", "/", "b", "a", "c">>

\* generate_qr_code(url): the PNG that encodes url
generate_qr_code(url) == [kind |-> "png", encodes |-> url]

\* re.split(r'[,;]', text)
RECURSIVE SplitCommaSemicolon(_)
SplitCommaSemicolon(s) ==
    IF \A i \in DOMAIN s : s[i] \notin {",", ";"} THEN <<s>>
    ELSE LET k == CHOOSE i \in DOMAIN s :
                      s[i] \in {",", ";"} /\ \A j \in 1..(i - 1) : s[j] \notin {",", ";"}
         IN  <<SubSeq(s, 1, k - 1)>> \o SplitCommaSemicolon(SubSeq(s, k + 1, Len(s)))

LinkSubjectPrefix ==
    <<"B","A","C"," ","H","e","l","i","c","o","p","t","e","r","s"," ",
      "F","l","i","g","h","t"," ","L","i","n","k"," ", EmDash, " ">>

\* request.form.get(field, '').strip()
FormField(form, field) == StrStrip(Get(form, field, <<>>))

\* not all([flight_date, flight_time, route, registration, pilot])
LinkDetailsMissing(form) ==
    \E f \in {"date", "time", "route", "reg", "pilot"} : FormField(form, f) = <<>>

share_url(form) ==
    BaseUrl \o <<"/", "?">>
        \o urlencode(<< <<<<"d","a","t","e">>, FormField(form, "date")>>,
                        <<<<"t","i","m","e">>, FormField(form, "time")>>,
                        <<<<"r","o","u","t","e">>, FormField(form, "route")>>,
                        <<<<"a","c","_","t","y","p","e">>, FormField(form, "ac_type")>>,
                        <<<<"r","e","g">>, FormField(form, "reg")>>,
                        <<<<"p","i","l","o","t">>, FormField(form, "pilot")>> >>)

\* The outcomes of POST /admin/create_link: the set of [fs, resp, body].
\* send_email raising is not caught by the route: Flask answers 500.
create_link(fs, cfg, t, key, form) ==
    LET url == share_url(form)
        link == Some([url |-> url, qr |-> generate_qr_code(url)])
        emails == StripNonEmpty(SplitCommaSemicolon(FormField(form, "emails")))
        subject == LinkSubjectPrefix \o FormField(form, "date") \o <<" ">>
                       \o FormField(form, "route")
    IN  IF key # ADMIN_KEY
        THEN {[fs |-> fs, resp |-> Response(401, -1, None, <<>>), body |-> None]}
        ELSE IF LinkDetailsMissing(form)
        THEN {[fs |-> fs, resp |-> Response(400, -1, None, <<>>), body |-> None]}
        ELSE IF emails = <<>>
        THEN {[fs |-> fs, resp |-> Response(200, -1, None, <<>>), body |-> link]}
        ELSE {[fs |-> [fs EXCEPT !.outbox = s.outbox],
               resp |-> Response(IF s.ret = "raised" THEN 500 ELSE 200, -1, None,
                                 <<Ev("send_link", s.ret)>>),
               body |-> IF s.ret = "raised" THEN None ELSE link]
              : s \in send_email(fs.outbox, t, cfg.smtp, emails, subject)}

\* Variant of download_manifest that does not check the key.
download_manifest_NoKeyCheck(fs, key, flight_id) ==
    IF flight_id = <<>> THEN [status |-> 400, body |-> None]
    ELSE IF flight_id \notin DOMAIN fs.manifests THEN [status |-> 404, body |-> None]
    ELSE [status |-> 200, body |-> Some(fs.manifests[flight_id])]

\* GET /admin/download_manifest: the manifest file of the flight
download_manifest(fs, key, flight_id) ==
    IF key # ADMIN_KEY THEN [status |-> 401, body |-> None]
    ELSE IF flight_id = <<>> THEN [status |-> 400, body |-> None]
    ELSE IF flight_id \notin DOMAIN fs.manifests THEN [status |-> 404, body |-> None]
    ELSE [status |-> 200, body |-> Some(fs.manifests[flight_id])]

\* GET /admin/download_tickets: a ZIP of the PDFs in the flight's directory
download_tickets(fs, key, flight_id) ==
    IF key # ADMIN_KEY THEN [status |-> 401, body |-> None]
    ELSE IF flight_id = <<>> THEN [status |-> 400, body |-> None]
    ELSE IF flight_id \notin DOMAIN fs.tickets THEN [status |-> 404, body |-> None]
    ELSE [status |-> 200, body |-> Some(fs.tickets[flight_id])]

(***************************************************************************)
(* Requests of the model.                                                  *)
(***************************************************************************)
BasePayload ==
    [name |-> <<"A","l">>, email |-> <<"a","@","x",".","c","o">>, body_weight |-> <<"8","0">>,
     num_bags |-> <<"1">>, bag_weight |-> <<"9">>,
     flight_date |-> <<"2","0","2","6","-","1","1","-","0","2">>, flight_time |-> <<"0","9",":","0","0">>,
     route |-> <<"C","P","T","-","R","B","N">>, ac_type |-> <<"R","4","4">>,
     registration |-> <<"Z","S","-","A">>, pilot |-> <<"K","i","m">>,
     dg_acknowledged |-> "true", conditions_accepted |-> "true",
     signature_data |-> [kind |-> "png", len |-> 1000]]

Weights == {<<"8","0">>, <<"x">>}
Routes == {<<"C","P","T","-","R","B","N">>, <<"J","N","B">>}

ValidPayloads == {[BasePayload EXCEPT !.body_weight = w, !.route = r] : w \in Weights, r \in Routes}

Without(d, f) == [k \in DOMAIN d \ {f} |-> d[k]]

RequiredFields == {"name", "email", "body_weight", "flight_date", "route", "registration"}

BigImage == [kind |-> "png", len |-> MAX_SINGLE_IMAGE_BASE64 + 1]
HalfImage == [kind |-> "png", len |-> 500000]

WithPhotos(photo1, photo2) ==
    [k \in DOMAIN BasePayload \cup {"photo1_data", "photo2_data"} |->
        CASE k = "photo1_data" -> photo1
          [] k = "photo2_data" -> photo2
          [] OTHER -> BasePayload[k]]

\* payloads over the single-image cap in one field, or over the total cap
OversizePayloads ==
    {[BasePayload EXCEPT !.signature_data = BigImage],
     WithPhotos(BigImage, NoImage),
     WithPhotos(NoImage, BigImage),
     [WithPhotos(HalfImage, HalfImage) EXCEPT !.signature_data = HalfImage]}

InvalidPayloads ==
    {Without(BasePayload, f) : f \in RequiredFields}
    \cup {[BasePayload EXCEPT ![f] = <<>>] : f \in RequiredFields}
    \cup {Without(BasePayload, f) :
              f \in {"dg_acknowledged", "conditions_accepted", "signature_data"}}
    \cup {[BasePayload EXCEPT !.dg_acknowledged = "false"],
          [BasePayload EXCEPT !.conditions_accepted = "false"],
          [BasePayload EXCEPT !.signature_data = NoImage],
          EmptyMap}
    \cup OversizePayloads

Payloads == ValidPayloads \cup InvalidPayloads

PilotAddress == <<"p","@","b","a","c">>

Configs == [smtp : BOOLEAN, pilot_email : {<<>>, PilotAddress}, sp_drive : BOOLEAN]

Keys == {ADMIN_KEY, <<"x">>}

BaseForm ==
    [date |-> <<"2","0","2","6","-","1","1","-","0","2">>, time |-> <<"0","9",":","0","0">>,
     route |-> <<"C","P","T","-","R","B","N">>, ac_type |-> <<"R","4","4">>,
     reg |-> <<"Z","S","-","A">>, pilot |-> <<"K","i","m">>,
     emails |-> <<"b","@","x",".","c","o">>]

\* forms of POST /admin/create_link: complete, one flight field empty, blank
\* or absent, no recipients
Forms ==
    {BaseForm,
     [BaseForm EXCEPT !.ac_type = <<>>],
     [BaseForm EXCEPT !.ac_type = <<" ">>],
     [BaseForm EXCEPT !.route = <<" ">>],
     Without(BaseForm, "pilot"),
     [BaseForm EXCEPT !.emails = <<>>]}

(***************************************************************************)
(* State.                                                                  *)
(***************************************************************************)
VARIABLES
    fs,         \* the files: counter, manifests, tickets, outbox, splog
    cfg,        \* the environment variables
    clock,      \* the time of day, in seconds
    nreq,       \* requests handled
    last,       \* the last request: what was asked and what came back
    appended,   \* history: per flight, the rows append_to_manifest was given
    race        \* get_next_ticket_number or append_to_manifest calls in flight, and
                \* what the calls that returned issued

vars == <<fs, cfg, clock, nreq, last, appended, race>>

NoView == [authorized |-> FALSE, flights |-> <<>>]

NoRequest ==
    [op |-> "none", data |-> EmptyMap, invalid |-> FALSE, oversize |-> FALSE, before |-> None,
     resp |-> Response(0, -1, None, <<>>), view |-> NoView, body |-> None]

EmptyFs ==
    [counter |-> None, manifests |-> EmptyMap, tickets |-> EmptyMap,
     outbox |-> EmptyMap, splog |-> 0]

\* the request threads that can be inside get_next_ticket_number at once
Threads == 1..NumThreads

\* no call in flight, none made
NoCalls ==
    [at |-> [p \in Threads |-> "out"], current |-> [p \in Threads |-> 0], issued |-> <<>>]

Init ==
    /\ fs = EmptyFs
    /\ cfg \in Configs
    /\ clock = 0
    /\ nreq = 0
    /\ last = NoRequest
    /\ appended = EmptyMap
    /\ race = NoCalls

\* the flight a payload is filed under
FlightOf(data) ==
    generate_flight_id(Get(data, "flight_date", <<>>), Get(data, "route", <<>>),
                       Get(data, "registration", <<>>))

Did(resp, e, res) == \E i \in DOMAIN resp.events : resp.events[i] = Ev(e, res)

\* POST /submit with payload data
Submit(data) ==
    /\ nreq < MaxRequests
    /\ \E o \in submit_ticket(fs, cfg, clock, data) :
          /\ fs' = o.fs
          /\ last' = [op |-> "submit",
                      data |-> IF data \in InvalidPayloads THEN EmptyMap ELSE data,
                      invalid |-> data \in InvalidPayloads,
                      oversize |-> data \in OversizePayloads,
                      before |-> fs.counter,
                      resp |-> o.resp, view |-> NoView, body |-> None]
          /\ appended' =
                IF Did(o.resp, "append_to_manifest", "ok")
                THEN (FlightOf(data) :>
                         Append(Get(appended, FlightOf(data), <<>>),
                                PassengerData(data, clock, o.resp.number))) @@ appended
                ELSE appended
    /\ nreq' = nreq + 1
    /\ UNCHANGED <<cfg, clock, race>>

\* GET /admin?key=...
AdminDashboard(key) ==
    /\ nreq < MaxRequests
    /\ last' = [op |-> "admin", data |-> [key |-> key], invalid |-> FALSE, oversize |-> FALSE,
                before |-> fs.counter,
                resp |-> Response(200, -1, None, <<>>),
                view |-> admin_dashboard(fs, key), body |-> None]
    /\ nreq' = nreq + 1
    /\ UNCHANGED <<fs, cfg, clock, appended, race>>

\* POST /admin/create_link with the form fields
CreateLink(key, form) ==
    /\ nreq < MaxRequests
    /\ \E o \in create_link(fs, cfg, clock, key, form) :
          /\ fs' = o.fs
          /\ last' = [op |-> "create_link", data |-> [key |-> key, form |-> form],
                      invalid |-> FALSE, oversize |-> FALSE, before |-> fs.counter,
                      resp |-> o.resp, view |-> NoView, body |-> o.body]
    /\ nreq' = nreq + 1
    /\ UNCHANGED <<cfg, clock, appended, race>>

\* the answer of a download route as the last request
Downloaded(op, key, flight_id, answer) ==
    [op |-> op, data |-> [key |-> key, flight_id |-> flight_id],
     invalid |-> FALSE, oversize |-> FALSE, before |-> fs.counter,
     resp |-> Response(answer.status, -1, None, <<>>), view |-> NoView, body |-> answer.body]

\* GET /admin/download_manifest?key=...&flight_id=...
DownloadManifest(key, flight_id) ==
    /\ nreq < MaxRequests
    /\ last' = Downloaded("download_manifest", key, flight_id,
                          download_manifest(fs, key, flight_id))
    /\ nreq' = nreq + 1
    /\ UNCHANGED <<fs, cfg, clock, appended, race>>

\* GET /admin/download_tickets?key=...&flight_id=...
DownloadTickets(key, flight_id) ==
    /\ nreq < MaxRequests
    /\ last' = Downloaded("download_tickets", key, flight_id,
                          download_tickets(fs, key, flight_id))
    /\ nreq' = nreq + 1
    /\ UNCHANGED <<fs, cfg, clock, appended, race>>

\* the flight ids asked for: the flights of the payloads, and none
FlightIds == {FlightOf(d) : d \in ValidPayloads} \cup {<<>>}

\* a second passes
Tick ==
    /\ clock < MaxClock
    /\ clock' = clock + 1
    /\ UNCHANGED <<fs, cfg, nreq, last, appended, race>>

Next ==
    \/ \E data \in Payloads : Submit(data)
    \/ \E key \in Keys : AdminDashboard(key)
    \/ \E key \in Keys, form \in Forms : CreateLink(key, form)
    \/ \E key \in Keys, flight_id \in FlightIds : DownloadManifest(key, flight_id)
    \/ \E key \in Keys, flight_id \in FlightIds : DownloadTickets(key, flight_id)
    \/ Tick

Spec == Init /\ [][Next]_vars

(***************************************************************************)
(* Submissions whose fields vary, under one configuration (no SMTP, no     *)
(* pilot address, no SharePoint): what reaches the PDF and the manifest    *)
(* row for each shape of payload that passes validation.                   *)
(***************************************************************************)
\* a later passenger of the same flight whose link carried other attributes
LaterPayload ==
    [BasePayload EXCEPT !.flight_time = <<"1","0",":","3","0">>,
                        !.route = <<"c","p","t"," ","r","b","n">>,
                        !.ac_type = <<"B","2","0","6">>,
                        !.registration = <<"z","s","-","a">>,
                        !.pilot = <<"L","e","e">>]

RowPayloads ==
    {BasePayload, LaterPayload,
     [BasePayload EXCEPT !.route = <<"J","N","B">>],
     [BasePayload EXCEPT !.route = <<"A","_","B">>],
     [BasePayload EXCEPT !.body_weight = <<"x">>],
     [BasePayload EXCEPT !.bag_weight = <<"x">>],
     [BasePayload EXCEPT !.name = <<" ">>],
     [BasePayload EXCEPT !.dg_acknowledged = "1"],
     [BasePayload EXCEPT !.signature_data = [kind |-> "notb64", len |-> 1000]],
     [BasePayload EXCEPT !.signature_data = [kind |-> "text", len |-> 1000]],
     WithPhotos([kind |-> "notb64", len |-> 1000], [kind |-> "text", len |-> 1000])}

InitRows ==
    /\ fs = EmptyFs
    /\ cfg = [smtp |-> FALSE, pilot_email |-> <<>>, sp_drive |-> FALSE]
    /\ clock = 0
    /\ nreq = 0
    /\ last = NoRequest
    /\ appended = EmptyMap
    /\ race = NoCalls

NextRows == \E data \in RowPayloads : Submit(data)

SpecRows == InitRows /\ [][NextRows]_vars

(***************************************************************************)
(* Interleaved calls of get_next_ticket_number.  Flask serves each request *)
(* on its own thread and the function takes no lock, so the steps of two   *)
(* calls interleave: the read (lines 236-239), the truncating open and the *)
(* write of write_text (line 242).  race.at[p] is where thread p is in its *)
(* call, race.current[p] what it read, race.issued the calls that          *)
(* returned: the number, the value the call read, whether it fell back.    *)
(***************************************************************************)
\* the times of day the interleaved calls are made at: 00:00:00 and 10:00:00
RaceClocks == {0, 36000}

InitRace ==
    /\ fs = EmptyFs
    /\ cfg = [smtp |-> FALSE, pilot_email |-> <<>>, sp_drive |-> FALSE]
    /\ clock \in RaceClocks
    /\ nreq = 0
    /\ last = NoRequest
    /\ appended = EmptyMap
    /\ race = NoCalls

\* the call of thread p returns number, having read current (0 when int() raised)
Returned(p, number, current, fellBack) ==
    [race EXCEPT !.at[p] = "out", !.current[p] = 0,
                 !.issued = Append(@, [number |-> number, current |-> current,
                                       fellBack |-> fellBack])]

\* lines 235-239: the call of thread p reads the counter; int() of a file
\* that is not an integer raises and the except branch returns the clock number
CounterRead(p) ==
    /\ race.at[p] = "out"
    /\ nreq < MaxCalls
    /\ nreq' = nreq + 1
    /\ LET r == counter_read(fs.counter)
       IN  race' = IF r.ok
                   THEN [race EXCEPT !.at[p] = "read", !.current[p] = r.current]
                   ELSE Returned(p, ClockNumber(clock), 0, TRUE)
    /\ UNCHANGED <<fs, cfg, clock, last, appended>>

\* line 242, write_text: the file is opened for writing, which empties it
CounterOpen(p) ==
    /\ race.at[p] = "read"
    /\ fs' = [fs EXCEPT !.counter = counter_open(@)]
    /\ race' = [race EXCEPT !.at[p] = "opened"]
    /\ UNCHANGED <<cfg, clock, nreq, last, appended>>

\* lines 242-243: the text is written and the number returned
CounterWrite(p) ==
    /\ race.at[p] = "opened"
    /\ LET w == counter_write(race.current[p])
       IN  /\ fs' = [fs EXCEPT !.counter = w.file]
           /\ race' = Returned(p, w.ret, race.current[p], FALSE)
    /\ UNCHANGED <<cfg, clock, nreq, last, appended>>

NextRace == \E p \in Threads : CounterRead(p) \/ CounterOpen(p) \/ CounterWrite(p)

SpecRace == InitRace /\ [][NextRace]_vars

(***************************************************************************)
(* Interleaved calls of append_to_manifest.  The function takes no lock,   *)
(* so the steps of two calls interleave: the exists() test (line 264), the *)
(* open in append mode, which creates a missing file (line 266), and the   *)
(* write of the buffered lines when the with block closes the file (lines  *)
(* 267-270).  race.at[p] is where thread p is in its call,                 *)
(* race.file_exists[p] what its test answered, race.data[p] the row it was *)
(* given and race.issued the rows of the calls that returned.              *)
(***************************************************************************)
\* line 264: manifest_path.exists()
manifest_exists(manifests, flight_id) == flight_id \in DOMAIN manifests

\* line 266: open(manifest_path, 'a') creates the file when there is none
manifest_open(manifests, flight_id) ==
    IF flight_id \in DOMAIN manifests THEN manifests ELSE (flight_id :> <<>>) @@ manifests

\* lines 267-270: the header if the test found no file, then the row, added
\* at the end of the file as it is when the buffer is flushed
manifest_write(manifests, flight_id, file_exists, data) ==
    [manifests EXCEPT ![flight_id] =
        @ \o (IF ~file_exists THEN <<HeaderLine>> ELSE <<>>) \o <<RowLine(data)>>]

\* the payloads of the interleaved appends: two passengers of one flight and
\* one of another
AppendPayloads ==
    {BasePayload, [BasePayload EXCEPT !.name = <<"B","o">>],
     [BasePayload EXCEPT !.route = <<"J","N","B">>]}

NoAppends ==
    [at |-> [p \in Threads |-> "out"], file_exists |-> [p \in Threads |-> FALSE],
     data |-> [p \in Threads |-> EmptyMap], issued |-> <<>>]

InitAppend ==
    /\ fs = EmptyFs
    /\ cfg = [smtp |-> FALSE, pilot_email |-> <<>>, sp_drive |-> FALSE]
    /\ clock = 0
    /\ nreq = 0
    /\ last = NoRequest
    /\ appended = EmptyMap
    /\ race = NoAppends

\* thread p enters append_to_manifest with a row and tests for the file
AppendExists(p, payload) ==
    /\ race.at[p] = "out"
    /\ nreq < MaxCalls
    /\ nreq' = nreq + 1
    /\ LET data == PassengerData(payload, clock, StartingNumber + nreq')
       IN  race' = [race EXCEPT !.at[p] = "tested", !.data[p] = data,
                                !.file_exists[p] =
                                    manifest_exists(fs.manifests, FlightOf(payload))]
    /\ UNCHANGED <<fs, cfg, clock, last, appended>>

AppendOpen(p) ==
    /\ race.at[p] = "tested"
    /\ fs' = [fs EXCEPT !.manifests = manifest_open(@, FlightOf(race.data[p]))]
    /\ race' = [race EXCEPT !.at[p] = "opened"]
    /\ UNCHANGED <<cfg, clock, nreq, last, appended>>

AppendWrite(p) ==
    /\ race.at[p] = "opened"
    /\ LET f == FlightOf(race.data[p])
       IN  /\ fs' = [fs EXCEPT !.manifests =
                        manifest_write(@, f, race.file_exists[p], race.data[p])]
           /\ appended' = (f :> Append(Get(appended, f, <<>>), race.data[p])) @@ appended
    /\ race' = [race EXCEPT !.at[p] = "out", !.data[p] = EmptyMap,
                            !.file_exists[p] = FALSE,
                            !.issued = Append(@, race.data[p])]
    /\ UNCHANGED <<cfg, clock, nreq, last>>

NextAppend ==
    \E p \in Threads :
        \/ \E payload \in AppendPayloads : AppendExists(p, payload)
        \/ AppendOpen(p)
        \/ AppendWrite(p)

SpecAppend == InitAppend /\ [][NextAppend]_vars

(***************************************************************************)
(* Properties.                                                             *)
(***************************************************************************)
Events == last.resp.events

Submitted == last.op = "submit"

\* the submission passed validation: a ticket number was issued
Accepted == Submitted /\ ~last.invalid /\ last.resp.status # 400

FromCounter == Accepted /\ Events[1] = Ev("ticket_number", "counter")

FellBack == Accepted /\ Events[1] = Ev("ticket_number", "fallback")

\* the integer a counter file stands for: 1548 when there is no file
Persisted(cf) == IF cf = None THEN StartingNumber ELSE DigitsValue(cf[1])

\* the rows read_manifest returns for the flight of the last submission
LastRows == read_manifest(fs.manifests, FlightOf(last.data))

\* C1: a POST /submit whose payload lacks a required field, an
\* acknowledgment or the signature is answered 400 and changes nothing: the
\* counter, the manifests, the tickets, the outbox and the upload log stay as
\* they were and the handler takes no step (no number issued, no email sent).
C1_InvalidRejectedNoEffect ==
    [][(last'.op = "submit" /\ nreq' = nreq + 1 /\ last'.invalid)
          => /\ last'.resp = Response(400, -1, None, <<>>)
             /\ fs' = fs
             /\ appended' = appended]_vars

C1_Witness ==
    /\ Submitted /\ last.invalid /\ last.resp.status = 400
    /\ nreq = 2 /\ fs.manifests # EmptyMap

\* C2 as stated: every accepted submission is issued the persisted counter
\* value plus one (1548 for no file), its manifest row carries that number
\* and the counter file afterwards holds it.
C2_Original ==
    Accepted =>
        /\ last.resp.number = Persisted(last.before) + 1
        /\ fs.counter = Some(IntToStr(last.resp.number))
        /\ Did(last.resp, "append_to_manifest", "ok")
              => RowGet(LastRows[Len(LastRows)], "ticket_number", <<>>)
                    = IntToStr(last.resp.number)

\* C2 amended: the manifest row of an accepted submission always carries the
\* number it was issued.  When the counter file is read and written without
\* error that number is the persisted value plus one (1548 for no file) and
\* the file afterwards holds it; when the content is not an integer or the
\* read or write raises, the number is the clock's HHMMSS and the file is
\* left as it was or truncated.
C2_NumberFromCounterOrClock ==
    Accepted =>
        /\ Did(last.resp, "append_to_manifest", "ok")
              => RowGet(LastRows[Len(LastRows)], "ticket_number", <<>>)
                    = IntToStr(last.resp.number)
        /\ FromCounter =>
              /\ last.before # None => IsDigits(last.before[1])
              /\ last.resp.number = Persisted(last.before) + 1
              /\ fs.counter = Some(IntToStr(last.resp.number))
        /\ FellBack =>
              /\ last.resp.number \in {ClockNumber(t) : t \in 0..clock}
              /\ fs.counter \in {last.before, Some(<<>>)}
        /\ FromCounter \/ FellBack

C2_Witness ==
    /\ FromCounter /\ last.resp.status = 200
    /\ last.before = Some(IntToStr(StartingNumber + 1))
    /\ last.resp.number = StartingNumber + 2
    /\ Len(LastRows) = 2

\* C3 as stated: of two accepted submissions made one after the other with
\* identical fields, the second is issued a greater ticket number.
C3_Original ==
    [][(/\ last.op = "submit" /\ last.resp.status = 200
        /\ last'.op = "submit" /\ last'.resp.status = 200
        /\ nreq' = nreq + 1
        /\ last'.data = last.data)
          => last'.resp.number > last.resp.number]_vars

\* C3 amended: of two accepted submissions made one after the other with
\* identical fields, both numbered from the counter file, the second is
\* issued the number one above the first; a submission numbered from the
\* clock may repeat or fall below an earlier number.
C3_ConsecutiveFromCounter ==
    [][(/\ last.op = "submit" /\ last.resp.status = 200
        /\ last'.op = "submit" /\ last'.resp.status = 200
        /\ nreq' = nreq + 1
        /\ last'.data = last.data
        /\ last.resp.events[1] = Ev("ticket_number", "counter")
        /\ last'.resp.events[1] = Ev("ticket_number", "counter"))
          => last'.resp.number = last.resp.number + 1]_vars

C3_Witness ==
    /\ FromCounter /\ last.resp.status = 200
    /\ Len(LastRows) = 2
    /\ \A c \in DOMAIN ColumnText \ {"ticket_number", "timestamp"} :
          RowGet(LastRows[1], c, <<>>) = RowGet(LastRows[2], c, <<>>)
    /\ RowGet(LastRows[1], "ticket_number", <<>>) = IntToStr(StartingNumber + 1)
    /\ RowGet(LastRows[2], "ticket_number", <<>>) = IntToStr(StartingNumber + 2)

\* the row read_manifest returns for a row given to append_to_manifest
AsRead(data) == [k \in {ColumnText[c] : c \in DOMAIN ColumnText} |->
                    data[CHOOSE c \in DOMAIN ColumnText : ColumnText[c] = k]]

\* C4: after N appends to a flight that had no manifest, the file is one
\* header line followed by the N rows in the order they were appended, and
\* read_manifest returns those N rows in that order.
C4_HeaderThenRowsInOrder ==
    /\ DOMAIN fs.manifests = DOMAIN appended
    /\ \A f \in DOMAIN appended :
          /\ Len(fs.manifests[f]) = 1 + Len(appended[f])
          /\ fs.manifests[f][1] = HeaderLine
          /\ \A i \in DOMAIN appended[f] :
                /\ fs.manifests[f][i + 1] = RowLine(appended[f][i])
                /\ fs.manifests[f][i + 1] # HeaderLine
          /\ read_manifest(fs.manifests, f) =
                [i \in DOMAIN appended[f] |-> AsRead(appended[f][i])]

C4_Witness ==
    \E f \in DOMAIN appended :
        /\ Len(appended[f]) = 2
        /\ appended[f][1] # appended[f][2]
        /\ Len(read_manifest(fs.manifests, f)) = 2

\* C5 as stated: once the ticket PDF is written and the manifest row
\* appended, the submitter receives the success response.
C5_SuccessOnceStored ==
    (Submitted /\ Did(last.resp, "write_pdf", "ok") /\ Did(last.resp, "append_to_manifest", "ok"))
        => last.resp.status = 200

\* C6 as stated: send_email never propagates an exception to its caller.
C6_SendNeverRaises ==
    Submitted => ~Did(last.resp, "send_passenger", "raised")
                 /\ ~Did(last.resp, "send_pilot", "raised")

SendAttempted(e) == \E r \in {"True", "False", "raised"} : Did(last.resp, e, r)

\* C7 as stated: in every accepted submission (answered with success) the
\* passenger receipt send and the pilot update send are both attempted, the
\* passenger receipt first.
C7_Original ==
    (Submitted /\ last.resp.status = 200) =>
        \E i, j \in DOMAIN Events :
            /\ i < j
            /\ Events[i].e = "send_passenger" /\ Events[i].res \in {"True", "False"}
            /\ Events[j].e = "send_pilot" /\ Events[j].res \in {"True", "False"}

\* C7 amended: in every submission whose manifest row was appended the
\* passenger receipt send is attempted, and nothing is sent to the pilot
\* before it.  In a submission answered with success the pilot update send is
\* attempted exactly when a pilot address is configured, whether the
\* passenger receipt was delivered live or queued; with no pilot address it
\* is skipped.
C7_PassengerFirstPilotIfConfigured ==
    (Submitted /\ Did(last.resp, "append_to_manifest", "ok")) =>
        /\ SendAttempted("send_passenger")
        /\ \A j \in DOMAIN Events :
              Events[j].e = "send_pilot" =>
                  \E i \in 1..(j - 1) : Events[i].e = "send_passenger"
        /\ last.resp.status = 200 =>
              /\ cfg.pilot_email # <<>> => SendAttempted("send_pilot")
              /\ cfg.pilot_email = <<>> => Did(last.resp, "send_pilot", "skipped")

C7_Witness ==
    /\ Submitted /\ last.resp.status = 200
    /\ Did(last.resp, "send_passenger", "False")
    /\ Did(last.resp, "send_pilot", "True")

\* the conditions blocks of the tickets on disk
ConditionsOnDisk ==
    UNION {{fs.tickets[f][n].conditions : n \in DOMAIN fs.tickets[f]} : f \in DOMAIN fs.tickets}

\* C8 as stated: the committed font size is the largest candidate at which
\* both column blocks fit the remaining height, or the smallest candidate
\* when none fits.  Read on what the renderer does: a committed size at
\* which a block does not fit is the last and smallest of several sizes it
\* typeset, and every size it typeset before the committed one did not fit.
C8_LargestFittingSize ==
    \A r \in ConditionsOnDisk :
        /\ r.returned
        /\ r.font = r.sizesTried[Len(r.sizesTried)]
        /\ \A i \in 1..(Len(r.sizesTried) - 1) :
              /\ r.sizesTried[i] > r.font
              /\ ~Fits(ConditionsLines, r.sizesTried[i], r.sizesTried[i] + 10)
        /\ ~(r.col1_drawn /\ r.col2_drawn) => Len(r.sizesTried) > 1

ZeroCounts(summary) ==
    /\ summary.passenger_count = 0
    /\ summary.total_body_weight = 0
    /\ summary.total_bag_weight = 0
    /\ summary.total_bags = 0

\* flight ids asked about: the flights of the payloads and two ids that are
\* not of the form date_route_registration
ProbeIds == {FlightOf(d) : d \in ValidPayloads} \cup {<<>>, <<"x", "_", "y">>}

\* C10: get_flight_summary of a flight with no manifest file, or with a
\* manifest holding no data row (an empty file, a header alone), returns
\* passenger count 0 and totals 0; so does every such flight the admin
\* dashboard lists.
C10_EmptyFlightSummaryIsZero ==
    /\ \A f \in ProbeIds \cup DOMAIN fs.tickets :
          /\ f \notin DOMAIN fs.manifests
                => ZeroCounts(get_flight_summary(fs.manifests, fs.tickets, f))
          /\ ZeroCounts(get_flight_summary((f :> <<>>) @@ fs.manifests, fs.tickets, f))
          /\ ZeroCounts(get_flight_summary((f :> <<HeaderLine>>) @@ fs.manifests, fs.tickets, f))
    /\ \A i \in DOMAIN last.view.flights :
          last.view.flights[i].flight_id \notin DOMAIN fs.manifests
              => ZeroCounts(last.view.flights[i])

C10_Witness ==
    /\ last.op = "admin" /\ last.view.authorized
    /\ \E i \in DOMAIN last.view.flights :
          /\ last.view.flights[i].flight_id \notin DOMAIN fs.manifests
          /\ last.view.flights[i].ticket_count = 1
          /\ ZeroCounts(last.view.flights[i])

\* C11: a submission with signature_data, photo1_data or photo2_data over the
\* single-image cap, or with the three together over the total cap, is
\* answered 400 before any later step of the handler (no decode, no number
\* issued) and leaves the counter, the tickets, the manifests, the outbox and
\* the upload log as they were.
C11_OversizeRejectedNoEffect ==
    [][(last'.op = "submit" /\ nreq' = nreq + 1 /\ last'.oversize)
          => /\ last'.resp.status = 400
             /\ last'.resp.events = <<>>
             /\ last'.resp.number = -1
             /\ fs'.counter = fs.counter /\ fs'.tickets = fs.tickets
             /\ fs'.manifests = fs.manifests /\ fs'.outbox = fs.outbox
             /\ fs'.splog = fs.splog]_vars

C11_Witness ==
    /\ Submitted /\ last.oversize /\ last.resp.status = 400
    /\ nreq = 2 /\ fs.tickets # EmptyMap /\ fs.counter # None

\* the calls that returned a number taken from the counter file
CounterIssued == {i \in DOMAIN race.issued : ~race.issued[i].fellBack}

\* the ticket numbers issued by the interleaved calls
IssuedNumbers == {race.issued[i].number : i \in DOMAIN race.issued}

NoCallInFlight == \A p \in Threads : race.at[p] = "out"

\* C12: when two submissions run concurrently there is an interleaving in
\* which both are issued the same ticket number.  Each call returns the
\* value it read plus one whatever was written since it read, so two calls
\* that read the same value are issued the same number.
C12_SameReadSameNumber ==
    \A i, j \in CounterIssued :
        /\ race.issued[i].number = race.issued[i].current + 1
        /\ race.issued[i].current = race.issued[j].current
              => race.issued[i].number = race.issued[j].number

C12_Witness ==
    /\ NoCallInFlight /\ nreq = 2
    /\ CounterIssued = {1, 2}
    /\ race.issued[1].number = race.issued[2].number
    /\ fs.counter = Some(IntToStr(race.issued[1].number))

\* some number between two issued ticket numbers was issued to no call
Skipped ==
    \E a, b \in IssuedNumbers : \E n \in (a + 1)..(b - 1) : n \notin IssuedNumbers

\* C13: there is an interleaving after which a ticket number is skipped.  A
\* call that reads the counter file while another call has it open for
\* writing finds it empty and is issued the clock number HHMMSS instead of
\* the next counter value; numbers are skipped only when a call was
\* numbered that way.
C13_SkipThroughEmptyRead ==
    [][/\ (fs.counter = Some(<<>>) /\ nreq' = nreq + 1)
            => /\ Len(race'.issued) = Len(race.issued) + 1
               /\ race'.issued[Len(race'.issued)].fellBack
               /\ race'.issued[Len(race'.issued)].number = ClockNumber(clock)
       /\ Skipped' => \E i \in DOMAIN race'.issued : race'.issued[i].fellBack]_vars

C13_Witness ==
    /\ NoCallInFlight /\ nreq = 2
    /\ Skipped
    /\ race.issued[1].fellBack /\ ~race.issued[2].fellBack
    /\ race.issued[1].number > race.issued[2].number + 1

\* C14 as stated: across any interleaving of submissions the integer held by
\* the counter file never decreases: whenever the file holds an integer, it
\* is at least every counter value written before.
C14_CounterNeverDecreases ==
    (fs.counter # None /\ IsDigits(fs.counter[1]))
        => \A i \in CounterIssued : DigitsValue(fs.counter[1]) >= race.issued[i].number

\* C15 as stated: each accepted submission writes its own ticket PDF and no
\* later operation overwrites it: a flight's ticket directory holds at least
\* one PDF per manifest row appended, and for every row appended a PDF
\* rendered from that row's data.
C15_EachSubmissionKeepsItsPdf ==
    \A f \in DOMAIN appended :
        /\ f \in DOMAIN fs.tickets
        /\ Cardinality(DOMAIN fs.tickets[f]) >= Len(appended[f])
        /\ \A i \in DOMAIN appended[f] :
              \E n \in DOMAIN fs.tickets[f] : fs.tickets[f][n].data = appended[f][i]

\* the sends of a response that returned 'queued to fallback'
QueuedSends(resp) ==
    Cardinality({i \in DOMAIN resp.events :
                    /\ resp.events[i].e \in {"send_passenger", "send_pilot", "send_link"}
                    /\ resp.events[i].res = "False"})

\* C16 as stated: every send that returns 'queued to fallback' adds its own
\* file to the outbox and no file is overwritten: each request makes the
\* outbox grow by the number of its sends that were queued, and leaves the
\* files that were there as they were.
C16_OneFilePerQueuedSend ==
    [][nreq' = nreq + 1
          => /\ Cardinality(DOMAIN fs'.outbox)
                   = Cardinality(DOMAIN fs.outbox) + QueuedSends(last'.resp)
             /\ \A n \in DOMAIN fs.outbox :
                   n \in DOMAIN fs'.outbox /\ fs'.outbox[n] = fs.outbox[n]]_vars

\* C17 as stated: an outbox file is written only when a live delivery was
\* attempted (SMTP is configured) and failed.
C17_Original ==
    [][fs'.outbox # fs.outbox => cfg.smtp]_vars

DeliveredSends(resp) ==
    Cardinality({i \in DOMAIN resp.events :
                    /\ resp.events[i].e \in {"send_passenger", "send_pilot", "send_link"}
                    /\ resp.events[i].res = "True"})

\* C17 amended: an outbox file is written only by a send that did not
\* deliver live: a request changes the outbox only if one of its sends
\* returned 'queued', and adds at most one file per such send.  Without SMTP
\* configured no delivery is attempted and no send returns 'delivered': the
\* message goes to the outbox.
C17_OutboxOnlyWhenNotDelivered ==
    [][nreq' = nreq + 1
          => /\ fs'.outbox # fs.outbox => QueuedSends(last'.resp) > 0
             /\ Cardinality(DOMAIN fs'.outbox \ DOMAIN fs.outbox) <= QueuedSends(last'.resp)
             /\ ~cfg.smtp => DeliveredSends(last'.resp) = 0]_vars

C17_Witness ==
    /\ Submitted /\ ~cfg.smtp /\ last.resp.status = 200
    /\ Did(last.resp, "send_passenger", "False")
    /\ fs.outbox # EmptyMap

AdminOps == {"admin", "create_link", "download_manifest", "download_tickets"}

\* C18: each of the four admin operations, called with a key other than the
\* admin key, returns no flight, manifest, ticket or link, sends nothing and
\* leaves every file as it was; the three routes other than the dashboard
\* answer 401.
C18_WrongKeyGetsNothing ==
    [][(nreq' = nreq + 1 /\ last'.op \in AdminOps /\ last'.data.key # ADMIN_KEY)
          => /\ last'.body = None
             /\ last'.view = NoView
             /\ last'.resp.events = <<>>
             /\ last'.resp.status = (IF last'.op = "admin" THEN 200 ELSE 401)
             /\ fs' = fs
             /\ appended' = appended]_vars

C18_Witness ==
    /\ last.op = "download_manifest" /\ last.data.key # ADMIN_KEY
    /\ last.data.flight_id \in DOMAIN fs.manifests
    /\ last.resp.status = 401 /\ last.body = None

\* some flight field of the form is empty after trimming
AnyFlightFieldEmpty(form) ==
    \E f \in {"date", "time", "route", "ac_type", "reg", "pilot"} :
        StrStrip(Get(form, f, <<>>)) = <<>>

\* C19 as stated: create_link answers 400, with no link built and no email
\* sent, every request in which a flight field (date, time, route, aircraft
\* type, registration, pilot) is empty after trimming.
C19_AllFlightFieldsRequired ==
    (last.op = "create_link" /\ last.data.key = ADMIN_KEY
        /\ AnyFlightFieldEmpty(last.data.form))
        => /\ last.resp.status = 400
           /\ last.body = None
           /\ last.resp.events = <<>>

\* C20 as stated: every failure of an upload is recovered inside
\* upload_to_sharepoint: no upload of a submission raises, and every upload
\* that returns failure has added one line to the upload error log.
C20_UploadFailuresRecoveredAndLogged ==
    Submitted =>
        /\ ~Did(last.resp, "upload_ticket", "raised")
        /\ ~Did(last.resp, "upload_manifest", "raised")
        /\ Did(last.resp, "upload_ticket", "returned")
              => \A o \in upload_to_sharepoint(fs.splog) :
                    o.ret = "False" => o.splog = fs.splog + 1

\* the sum over rows of the values of a column that are numbers
RECURSIVE NumericSum(_, _)
NumericSum(rows, column) ==
    IF rows = <<>> THEN 0
    ELSE NumberOrZero(RowGet(Head(rows), column, <<>>)).val + NumericSum(Tail(rows), column)

\* C21 as stated: each total of get_flight_summary is the sum of the numeric
\* values of its column, a non-numeric value in one field of a row not
\* removing the row's other fields from their totals.
C21_TotalsPerField ==
    \A f \in DOMAIN fs.manifests :
        LET rows == read_manifest(fs.manifests, f)
            summary == get_flight_summary(fs.manifests, fs.tickets, f)
        IN  /\ summary.total_body_weight = NumericSum(rows, "body_weight")
            /\ summary.total_bag_weight = NumericSum(rows, "bag_weight")
            /\ summary.total_bags = NumericSum(rows, "num_bags")

\* the flight attributes of a row, as get_flight_summary reports them
AttributesOf(row) ==
    [date |-> Some(row.flight_date), time |-> Some(row.flight_time),
     route |-> Some(row.route), ac_type |-> Some(row.ac_type),
     registration |-> Some(row.registration), pilot |-> Some(row.pilot)]

\* C22: once a flight's manifest has a first row, the attributes
\* get_flight_summary reports (date, time, route, aircraft type,
\* registration, pilot) are those of the first row appended, in every later
\* state and whatever the rows appended after it carry.
C22_AttributesFromFirstRow ==
    \A f \in DOMAIN appended :
        get_flight_summary(fs.manifests, fs.tickets, f).info = AttributesOf(appended[f][1])

C22_Witness ==
    \E f \in DOMAIN appended :
        /\ Len(appended[f]) = 2
        /\ AttributesOf(appended[f][2]) # AttributesOf(appended[f][1])
        /\ appended[f][2].pilot = <<"K","i","m">>
        /\ get_flight_summary(fs.manifests, fs.tickets, f).info.pilot = Some(<<"L","e","e">>)

IsPrefix(a, b) == Len(a) <= Len(b) /\ SubSeq(b, 1, Len(a)) = a

\* C23: manifests are append-only and flights are never removed: across
\* every step the rows read_manifest returns for a flight are a prefix of
\* the rows it returns afterwards, and every flight get_all_flights lists is
\* listed afterwards.
C23_AppendOnly ==
    [][/\ \A f \in DOMAIN fs.manifests :
              IsPrefix(read_manifest(fs.manifests, f), read_manifest(fs'.manifests, f))
       /\ Range(get_all_flights(fs.manifests, fs.tickets))
              \subseteq Range(get_all_flights(fs'.manifests, fs'.tickets))]_vars

C23_Witness ==
    /\ Len(get_all_flights(fs.manifests, fs.tickets)) = 2
    /\ \E f \in DOMAIN fs.manifests : Len(read_manifest(fs.manifests, f)) = 1
    /\ \E f \in DOMAIN fs.tickets : f \notin DOMAIN fs.manifests
    /\ nreq = 2

\* the calls of send_email a response records: a send event that is neither
\* the pilot update skipped for want of an address nor its totals raising
SendCalls(resp) ==
    {i \in DOMAIN resp.events :
        /\ resp.events[i].e \in {"send_passenger", "send_pilot", "send_link"}
        /\ resp.events[i].res \notin {"skipped", "value_error"}}

\* C24 as stated: each send call ends in exactly one of two outcomes: it
\* delivered the message, returned true and wrote no outbox file, or it did
\* not deliver, wrote an outbox file and returned false; no call does
\* neither.
C24_ExactlyOneOutcome ==
    [][nreq' = nreq + 1
          => /\ \A i \in SendCalls(last'.resp) :
                    last'.resp.events[i].res \in {"True", "False"}
             /\ Cardinality(SendCalls(last'.resp))
                    = DeliveredSends(last'.resp) + QueuedSends(last'.resp)
             /\ QueuedSends(last'.resp) = 0 => fs'.outbox = fs.outbox]_vars

ImageFields == {"signature_data", "photo1_data", "photo2_data"}

\* an image field whose data is not base64 or does not decode to an image
MalformedImage(img) == img.kind \in {"notb64", "text"}

Malformed(data) == \E k \in ImageFields \cap DOMAIN data : MalformedImage(data[k])

\* the same payload with a well-formed image of the same size in place of
\* each malformed one
WellFormedTwin(data) ==
    [k \in DOMAIN data |->
        IF k \in ImageFields /\ MalformedImage(data[k])
        THEN [data[k] EXCEPT !.kind = "png"]
        ELSE data[k]]

\* two ticket trees hold the same documents but for the signature drawn
SameButSignature(t1, t2) ==
    /\ DOMAIN t1 = DOMAIN t2
    /\ \A f \in DOMAIN t1 :
          /\ DOMAIN t1[f] = DOMAIN t2[f]
          /\ \A n \in DOMAIN t1[f] :
                /\ t1[f][n].data = t2[f][n].data
                /\ t1[f][n].conditions = t2[f][n].conditions

IsCleanSlug(s) ==
    /\ \A i \in DOMAIN s : s[i] \in Range(LowerChars) \cup Range(DigitChars) \cup {"-"}
    /\ \A i \in 1..(Len(s) - 1) : ~(s[i] = "-" /\ s[i + 1] = "-")

Underscores(s) == Len(SelectSeq(s, LAMBDA c : c = "_"))

\* C26 as stated: the route slug and the registration slug of every flight
\* identifier submit_ticket builds contain only lower-case letters, digits
\* and single hyphens, so the identifier's underscores are those of the date
\* and the two joining separators.
C26_SlugAlphabet ==
    \A f \in DOMAIN appended :
        \A i \in DOMAIN appended[f] :
            LET row == appended[f][i]
            IN  /\ f = generate_flight_id(row.flight_date, row.route, row.registration)
                /\ IsCleanSlug(slugify(row.route))
                /\ IsCleanSlug(slugify(row.registration))
                /\ Underscores(f) = Underscores(row.flight_date) + 2

\* the header lines of a manifest file
HeaderCount(file) == Len(SelectSeq(file, LAMBDA line : line = HeaderLine))

\* C27 as stated: for any interleaving of concurrent appends to a flight,
\* two first appends to a flight with no manifest file included, once the
\* appends have returned the file holds exactly one header row, as its first
\* line, and read_manifest returns one row per append, none of them a header.
C27_OneHeaderAnyInterleaving ==
    (\A p \in Threads : race.at[p] = "out")
        => \A f \in DOMAIN fs.manifests :
              /\ fs.manifests[f][1] = HeaderLine
              /\ HeaderCount(fs.manifests[f]) = 1
              /\ Len(read_manifest(fs.manifests, f)) = Len(Get(appended, f, <<>>))

\* lines 588 and 843: what the ticket and the pilot manifest show for a row
DgShown(row) == IF row.dg_ack = <<"T","r","u","e">> THEN "Yes" ELSE "No"

\* C28 as stated: every row submit_ticket appends to a manifest records the
\* dangerous-goods acknowledgment as the string 'True', so the ticket and
\* the pilot manifest never show an accepted passenger as not having
\* acknowledged.
C28_AcknowledgmentRecordedTrue ==
    \A f \in DOMAIN appended :
        \A i \in DOMAIN appended[f] :
            /\ appended[f][i].dg_ack = <<"T","r","u","e">>
            /\ RowGet(read_manifest(fs.manifests, f)[i], "dg_ack", <<>>) = <<"T","r","u","e">>
            /\ DgShown(appended[f][i]) = "Yes"

\* C29 as stated: every row submit_ticket appends to a manifest has a
\* non-empty value, as stored, in each required field: name, email,
\* body_weight, flight_date, route and registration.
C29_RequiredFieldsStored ==
    \A f \in DOMAIN appended :
        \A i \in DOMAIN appended[f] :
            \A column \in RequiredFields :
                /\ appended[f][i][column] # <<>>
                /\ RowGet(read_manifest(fs.manifests, f)[i], column, <<>>) # <<>>

\* the send events of a response, whatever they returned
SendEvents(resp) ==
    {i \in DOMAIN resp.events :
        resp.events[i].e \in {"send_passenger", "send_pilot", "send_link"}}

PdfFailed(resp) ==
    Did(resp, "create_ticket_pdf", "raised") \/ Did(resp, "write_pdf", "raised")

\* C30: a manifest row exists only if the ticket PDF of the same submission
\* was written to the flight's ticket directory first: a submission that
\* changes a manifest wrote its PDF before the append and the directory
\* holds a PDF rendered from the row; a submission whose rendering or PDF
\* write failed leaves the manifests as they were, sends no email and is
\* answered with an error, although the ticket number it was issued from the
\* counter stays consumed.
C30_RowOnlyAfterPdf ==
    [][(last'.op = "submit" /\ nreq' = nreq + 1 /\ ~last'.invalid)
          => LET resp == last'.resp
                 f == FlightOf(last'.data)
             IN  /\ (fs'.manifests # fs.manifests \/ appended' # appended)
                        => /\ \E i, j \in DOMAIN resp.events :
                                 /\ i < j
                                 /\ resp.events[i] = Ev("write_pdf", "ok")
                                 /\ resp.events[j] = Ev("append_to_manifest", "ok")
                           /\ f \in DOMAIN fs'.tickets
                           /\ \E n \in DOMAIN fs'.tickets[f] :
                                 fs'.tickets[f][n].data = appended'[f][Len(appended'[f])]
                           /\ fs'.manifests[f][Len(fs'.manifests[f])]
                                 = RowLine(appended'[f][Len(appended'[f])])
                 /\ PdfFailed(resp)
                        => /\ resp.status = 500
                           /\ fs'.manifests = fs.manifests
                           /\ appended' = appended
                           /\ fs'.outbox = fs.outbox
                           /\ SendEvents(resp) = {}
                           /\ resp.events[1] = Ev("ticket_number", "counter")
                                 => /\ fs'.counter = Some(IntToStr(resp.number))
                                    /\ fs'.counter # fs.counter
                                    /\ resp.number = Persisted(fs.counter) + 1]_vars

C30_Witness ==
    /\ Submitted /\ last.resp.status = 500
    /\ Did(last.resp, "write_pdf", "raised")
    /\ FromCounter
    /\ last.before = Some(IntToStr(StartingNumber + 1))
    /\ fs.counter = Some(IntToStr(StartingNumber + 2))
    /\ Len(LastRows) = 1
    /\ FlightOf(last.data) \in DOMAIN fs.tickets

=============================================================================
